---- MODULE Spec2Model ----
(***************************************************************************)
(* SESWebhookHandler (post_office/webhooks/ses.py): the SNS envelope       *)
(* dispatch of post(), and parse_events(), which turns one SES             *)
(* notification into a list of per-recipient ESPEvents.                    *)
(*                                                                         *)
(* Python values are tagged records.  A str is a sequence of text chunks   *)
(* (its text is the concatenation of the chunks), so that str.replace and  *)
(* f-string concatenation are computed; a str whose text is a JSON         *)
(* document carries the tag "jsonstr" and the value it decodes to.         *)
(* An exception is a result record with ok = FALSE.                        *)
(***************************************************************************)
EXTENDS Integers, Sequences, FiniteSets, TLC

VARIABLES pc, request, payload, calls, result, handled, response, escaped

vars == <<pc, request, payload, calls, result, handled, response, escaped>>

---------------------------------------------------------------------------
(* Bounds of the model *)

\* longest destination / recipients / bouncedRecipients list drawn as input
MaxRecipients == 2

---------------------------------------------------------------------------
(* Python / JSON values *)

None == [t |-> "null"]
Str(chunks) == [t |-> "str", v |-> chunks]
S(text) == Str(IF text = "" THEN <<>> ELSE <<text>>)
Num(n) == [t |-> "num", v |-> n]
Arr(items) == [t |-> "arr", v |-> items]
Obj(fields) == [t |-> "obj", v |-> fields]
JsonStr(value) == [t |-> "jsonstr", j |-> value]

\* marks a key that the input object does not have; never a value of a key
Absent == [t |-> "absent"]

\* the JSON object with the keys of f that are not Absent
Object(f) == Obj([k \in {x \in DOMAIN f : f[x] # Absent} |-> f[k]])

IsStr(x) == x.t \in {"str", "jsonstr"}
IsDict(x) == x.t = "obj"

\* Python truth value of a decoded JSON value
Truthy(x) ==
    CASE x.t = "null" -> FALSE
      [] x.t = "str" -> x.v # <<>>
      [] x.t = "jsonstr" -> TRUE
      [] x.t = "num" -> x.v # 0
      [] x.t = "arr" -> x.v # <<>>
      [] x.t = "obj" -> DOMAIN x.v # {}

\* dict.get(key, default) on a dict
DictGet(d, key, default) == IF key \in DOMAIN d.v THEN d.v[key] ELSE default

RECURSIVE Join(_)
\* the text of a str: its chunks concatenated
Join(chunks) == IF chunks = <<>> THEN "" ELSE Head(chunks) \o Join(Tail(chunks))

\* str.replace(old, new) where old is one chunk of text
StrReplace(chunks, old, new) ==
    [i \in 1..Len(chunks) |-> IF chunks[i] = old THEN new ELSE chunks[i]]

\* date-times that datetime.fromisoformat reads
IsoDateTimes == {"2024-01-02T03:04:05"}

\* datetime.fromisoformat: a naive date-time, or one with a +00:00 offset;
\* any other text is a ValueError
FromIsoFormat(chunks) ==
    IF Len(chunks) = 1 /\ chunks[1] \in IsoDateTimes
    THEN [ok |-> TRUE, dt |-> [t |-> "datetime", at |-> chunks[1], tz |-> "naive"]]
    ELSE IF Len(chunks) = 2 /\ chunks[1] \in IsoDateTimes /\ chunks[2] = "+00:00"
    THEN [ok |-> TRUE, dt |-> [t |-> "datetime", at |-> chunks[1], tz |-> "UTC"]]
    ELSE [ok |-> FALSE, dt |-> None]

---------------------------------------------------------------------------
(* Results of a call: a returned event list or a raised exception *)

Return(evs) == [ok |-> TRUE, events |-> evs, exc |-> "none"]
Raise(e) == [ok |-> FALSE, events |-> <<>>, exc |-> e]
NoResult == [ok |-> FALSE, events |-> <<>>, exc |-> "not called"]

ESPEvent(raw_event, delivery_status, recipient, message_id, timestamp, subject, to_addresses) ==
    [raw_event |-> raw_event, delivery_status |-> delivery_status,
     recipient |-> recipient, message_id |-> message_id,
     timestamp |-> timestamp, subject |-> subject, to_addresses |-> to_addresses]

---------------------------------------------------------------------------
(* parse_events *)

\* the text an f-string interpolates for a value
Format(x) ==
    CASE x.t = "str" -> Join(x.v)
      [] x.t = "null" -> "None"

\* ses.py 153-159: the timestamp of the notification.  The try block catches
\* (ValueError, TypeError) only: a truthy value that is no str has no replace
\* attribute, and that AttributeError leaves parse_events
ParseTimestamp(mail_data) ==
    LET ts == DictGet(mail_data, "timestamp", None)
    IN  IF ~Truthy(ts) THEN [ok |-> TRUE, exc |-> "none", timestamp |-> None]
        ELSE IF ~IsStr(ts) THEN [ok |-> FALSE, exc |-> "AttributeError", timestamp |-> None]
        ELSE LET parsed == FromIsoFormat(StrReplace(ts.v, "Z", "+00:00"))
             IN  [ok |-> TRUE, exc |-> "none",
                  timestamp |-> IF parsed.ok THEN parsed.dt ELSE None]

\* ses.py 162-176: one event per element of delivery.recipients, or of the
\* destinations when the delivery has no such key
DeliveryEvents(message, message_id, timestamp, subject, destinations) ==
    LET delivery_data == DictGet(message, "delivery", Obj(<<>>))
    IN  IF ~IsDict(delivery_data) THEN Raise("AttributeError")
        ELSE LET recipients == DictGet(delivery_data, "recipients", destinations)
             IN  IF recipients.t # "arr" THEN Raise("TypeError")
                 ELSE Return([i \in 1..Len(recipients.v) |->
                          ESPEvent("Delivery", "DELIVERED", recipients.v[i],
                                   message_id, timestamp, subject, destinations)])

\* BounceStatus with the test turned around: hard only for "Permanent"
BounceStatus_PermanentOnly(bounce_type) ==
    IF bounce_type = S("Permanent") THEN "HARD_BOUNCED" ELSE "SOFT_BOUNCED"

\* ses.py 183-186
BounceStatus(bounce_type) ==
    IF bounce_type = S("Transient") THEN "SOFT_BOUNCED" ELSE "HARD_BOUNCED"

\* ses.py 193: f'Bounce:{bounce_type}'
BounceRawEvent(bounce_type) == "Bounce:" \o Format(bounce_type)

\* ses.py 189-190 and 208-209: the address of an entry that yields an event
\* (recipient_info.get('emailAddress', '') and its truth test)
EntryRecipient(recipient_info) == DictGet(recipient_info, "emailAddress", S(""))

RECURSIVE RecipientLoop(_, _, _)
\* ses.py 188-201 and 207-220: the loop over the bounced or complained
\* entries; event is the event of the notification, recipient left open.
\* An entry that is no dict has no get: the AttributeError ends the loop and
\* the events built so far are lost with it.
RecipientLoop(entries, events, event) ==
    IF entries = <<>> THEN Return(events)
    ELSE LET recipient_info == Head(entries)
         IN  IF ~IsDict(recipient_info) THEN Raise("AttributeError")
             ELSE LET recipient == EntryRecipient(recipient_info)
                  IN  RecipientLoop(Tail(entries),
                          IF Truthy(recipient)
                          THEN Append(events, [event EXCEPT !.recipient = recipient])
                          ELSE events,
                          event)

\* ses.py 178-201
BounceEvents(message, message_id, timestamp, subject, destinations) ==
    LET bounce_data == DictGet(message, "bounce", Obj(<<>>))
    IN  IF ~IsDict(bounce_data) THEN Raise("AttributeError")
        ELSE LET bounce_type == DictGet(bounce_data, "bounceType", S("Permanent"))
                 bounced_recipients == DictGet(bounce_data, "bouncedRecipients", Arr(<<>>))
                 status == BounceStatus(bounce_type)
             IN  IF bounced_recipients.t # "arr" THEN Raise("TypeError")
                 ELSE RecipientLoop(bounced_recipients.v, <<>>,
                          ESPEvent(BounceRawEvent(bounce_type), status, None,
                                   message_id, timestamp, subject, destinations))

\* ses.py 203-220
ComplaintEvents(message, message_id, timestamp, subject, destinations) ==
    LET complaint_data == DictGet(message, "complaint", Obj(<<>>))
    IN  IF ~IsDict(complaint_data) THEN Raise("AttributeError")
        ELSE LET complained_recipients ==
                     DictGet(complaint_data, "complainedRecipients", Arr(<<>>))
             IN  IF complained_recipients.t # "arr" THEN Raise("TypeError")
                 ELSE RecipientLoop(complained_recipients.v, <<>>,
                          ESPEvent("Complaint", "SPAM_COMPLAINT", None,
                                   message_id, timestamp, subject, destinations))

\* ses.py 144-225: the decoded inner message to events
ClassifyMessage(message) ==
    IF ~IsDict(message) THEN Raise("AttributeError")
    ELSE
    LET notification_type == DictGet(message, "notificationType", S(""))
        mail_data == DictGet(message, "mail", Obj(<<>>))
    IN  IF ~IsDict(mail_data) THEN Raise("AttributeError")
        ELSE
        LET message_id == DictGet(mail_data, "messageId", None)
            destinations == DictGet(mail_data, "destination", Arr(<<>>))
            common_headers == DictGet(mail_data, "commonHeaders", Obj(<<>>))
        IN  IF ~IsDict(common_headers) THEN Raise("AttributeError")
            ELSE
            LET subject == DictGet(common_headers, "subject", None)
                ts == ParseTimestamp(mail_data)
            IN  IF ~ts.ok THEN Raise(ts.exc)
                ELSE IF notification_type = S("Delivery")
                THEN DeliveryEvents(message, message_id, ts.timestamp, subject, destinations)
                ELSE IF notification_type = S("Bounce")
                THEN BounceEvents(message, message_id, ts.timestamp, subject, destinations)
                ELSE IF notification_type = S("Complaint")
                THEN ComplaintEvents(message, message_id, ts.timestamp, subject, destinations)
                ELSE Return(<<>>)

\* ses.py 130-225: parse_events on the decoded outer payload, a dict.
\* json.loads raises TypeError for a Message that is no str, and
\* JSONDecodeError (caught, line 140) for a str that is no JSON document.
ParseEvents(p) ==
    LET message_str == DictGet(p, "Message", S(""))
    IN  IF ~Truthy(message_str) THEN Return(<<>>)
        ELSE IF ~IsStr(message_str) THEN Raise("TypeError")
        ELSE IF message_str.t # "jsonstr" THEN Return(<<>>)
        ELSE ClassifyMessage(message_str.j)

---------------------------------------------------------------------------
(* post and its helpers *)

JsonResponse(data, status) == [status_code |-> status, content |-> data]
NoResponse == [status_code |-> 0, content |-> <<>>]

HttpRequest(body) == [t |-> "HttpRequest", body |-> body]
NoRequest == [t |-> "none"]

\* PostRoute that takes a missing Type for a notification
PostRoute_MissingIsNotification(message_type) ==
    IF message_type = S("SubscriptionConfirmation") THEN "subscription"
    ELSE IF message_type = S("UnsubscribeConfirmation") THEN "unsubscribe"
    ELSE IF message_type \in {S("Notification"), S("")} THEN "notification"
    ELSE "unknown"

\* ses.py 69-85: the branch post takes for a message type
PostRoute(message_type) ==
    IF message_type = S("SubscriptionConfirmation") THEN "subscription"
    ELSE IF message_type = S("UnsubscribeConfirmation") THEN "unsubscribe"
    ELSE IF message_type = S("Notification") THEN "notification"
    ELSE "unknown"

\* HandleSubscriptionConfirmation reading the topic under a misspelt key
HandleSubscriptionConfirmation_WrongKey(p) ==
    LET subscribe_url == DictGet(p, "SubscribeURL", None)
        topic_arn == DictGet(p, "TopicARN", None)
    IN  JsonResponse([status |-> "subscription_confirmation_received",
                      topic_arn |-> topic_arn,
                      subscribe_url |-> subscribe_url], 200)

\* ses.py 87-105
HandleSubscriptionConfirmation(p) ==
    LET subscribe_url == DictGet(p, "SubscribeURL", None)
        topic_arn == DictGet(p, "TopicArn", None)
    IN  JsonResponse([status |-> "subscription_confirmation_received",
                      topic_arn |-> topic_arn,
                      subscribe_url |-> subscribe_url], 200)

\* AfterParse without the early return of the except clause
AfterParse_NoReturn(res) == "handle_events"

\* ses.py 109-115: where _handle_notification goes once parse_events has
\* returned or raised
AfterParse(res) == IF res.ok THEN "handle_events" ELSE "done"

\* NotificationResponse reporting whether, not how many
NotificationResponse_Flag(events) ==
    JsonResponse([status |-> "ok", processed |-> IF events = <<>> THEN 0 ELSE 1], 200)

\* ses.py 117
NotificationResponse(events) ==
    JsonResponse([status |-> "ok", processed |-> Len(events)], 200)

---------------------------------------------------------------------------
(* Inputs: the SNS envelopes and SES messages a request can carry *)

Addresses == {"a@example.com", "b@example.com"}

\* the lists of at most n elements of a set
ListsOf(set, n) == UNION {[1..k -> set] : k \in 0..n}

AddressLists == {Arr(l) : l \in ListsOf({S(a) : a \in Addresses}, MaxRecipients)}

\* mail.timestamp: with the Z designator, with an explicit offset, naive,
\* unparsable text, and a number
Timestamps ==
    {Absent, Str(<<"2024-01-02T03:04:05", "Z">>), Str(<<"2024-01-02T03:04:05", "+00:00">>),
     S("yesterday"), Num(1704164645)}

CommonHeaders == {Absent, None, Object([subject |-> S("Test Subject")])}

\* the mail object of a message whose destination is one of dests
MailsWith(dests) ==
    {Absent, None} \cup
    {Object([messageId |-> S("abc123"), destination |-> d,
             commonHeaders |-> h, timestamp |-> ts]) :
        d \in dests, h \in CommonHeaders, ts \in Timestamps}

Deliveries ==
    {Absent, None} \cup
    {Object([recipients |-> r]) : r \in {Absent, None} \cup AddressLists}

\* an entry of bouncedRecipients or complainedRecipients: no dict, without an
\* address, with an empty address, with an address
RecipientEntries ==
    {None, Obj(<<>>), Object([emailAddress |-> S("")])} \cup
    {Object([emailAddress |-> S(a)]) : a \in Addresses}

RecipientEntryLists ==
    {Absent, None} \cup {Arr(l) : l \in ListsOf(RecipientEntries, MaxRecipients)}

BounceTypes == {Absent, S("Transient"), S("Permanent"), S("Undetermined"), S("")}

Bounces ==
    {Absent, None} \cup
    {Object([bounceType |-> bt, bouncedRecipients |-> rs]) :
        bt \in BounceTypes, rs \in RecipientEntryLists}

Complaints ==
    {Absent, None} \cup
    {Object([complainedRecipients |-> rs]) : rs \in RecipientEntryLists}

\* the destination of the mails of bounces, complaints and unmapped types
FixedDestinations == {Arr(<<S("a@example.com"), S("b@example.com")>>)}

\* the decoded inner messages
Messages ==
    {None, Arr(<<>>), Num(7)} \cup
    {Object([notificationType |-> S("Delivery"), mail |-> m, delivery |-> d]) :
        m \in MailsWith({Absent, None} \cup AddressLists), d \in Deliveries} \cup
    {Object([notificationType |-> S("Bounce"), mail |-> m, bounce |-> b]) :
        m \in MailsWith(FixedDestinations), b \in Bounces} \cup
    {Object([notificationType |-> S("Complaint"), mail |-> m, complaint |-> c]) :
        m \in MailsWith(FixedDestinations), c \in Complaints} \cup
    {Object([notificationType |-> nt, mail |-> m]) :
        nt \in {Absent, S("Open")}, m \in MailsWith(FixedDestinations)}

\* the Message field of the envelope: absent, null, empty, no JSON, a number,
\* or the JSON text of a message
MessageFields ==
    {Absent, None, S(""), S("{not json"), Num(7)} \cup {JsonStr(m) : m \in Messages}

\* a few Message fields, for the envelopes that are no notification
ControlMessageFields ==
    {Absent, S(""), S("{not json"), JsonStr(None),
     JsonStr(Object([notificationType |-> S("Delivery"),
                     mail |-> Object([destination |-> Arr(<<S("a@example.com")>>)])]))}

Types ==
    {Absent, S("Notification"), S("SubscriptionConfirmation"),
     S("UnsubscribeConfirmation"), S("Unknown"), S("")}

\* the decoded envelopes (dicts) of notifications
NotificationPayloads ==
    {Object([Type |-> S("Notification"), MessageId |-> S("test-message-id"), Message |-> m]) :
        m \in MessageFields}

\* the decoded envelopes of every type, with the fields of a confirmation
ControlPayloads ==
    {Object([Type |-> ty, Message |-> m, TopicArn |-> arn, SubscribeURL |-> url]) :
        ty \in Types, m \in ControlMessageFields,
        arn \in {Absent, S("arn:aws:sns:us-east-1:123456789:ses-notifications")},
        url \in {Absent, S("https://sns.us-east-1.amazonaws.com/?Action=ConfirmSubscription")}}

Payloads == NotificationPayloads \cup ControlPayloads

\* request bodies: no JSON, JSON that is no object, the JSON text of an envelope
Bodies ==
    {S("{not json"), JsonStr(Arr(<<>>)), JsonStr(None)} \cup {JsonStr(p) : p \in Payloads}

---------------------------------------------------------------------------
(* The handler as a state machine: one request at a time *)

Init ==
    /\ pc = "idle"
    /\ request = NoRequest
    /\ payload = None
    /\ calls = <<>>
    /\ result = NoResult
    /\ handled = <<>>
    /\ response = NoResponse
    /\ escaped = "none"

\* a POST arrives: post is entered (ses.py 57); verify_signature returns True
Receive ==
    /\ pc = "idle"
    /\ \E body \in Bodies : request' = HttpRequest(body)
    /\ pc' = "post"
    /\ calls' = <<"post", "verify_signature">>
    /\ UNCHANGED <<payload, result, handled, response, escaped>>

\* ses.py 63-67: the body is no JSON
PostInvalidJSON ==
    /\ pc = "post"
    /\ request.body.t # "jsonstr"
    /\ response' = JsonResponse([error |-> "Invalid JSON"], 400)
    /\ pc' = "done"
    /\ UNCHANGED <<request, payload, calls, result, handled, escaped>>

\* ses.py 69: the body decodes to a value without get
PostNotADict ==
    /\ pc = "post"
    /\ request.body.t = "jsonstr"
    /\ ~IsDict(request.body.j)
    /\ payload' = request.body.j
    /\ escaped' = "AttributeError"
    /\ pc' = "done"
    /\ UNCHANGED <<request, calls, result, handled, response>>

\* the branch of post for a decoded dict body
RouteOf(body) == PostRoute(DictGet(body.j, "Type", S("")))

\* ses.py 72-73
PostSubscriptionConfirmation ==
    /\ pc = "post"
    /\ request.body.t = "jsonstr"
    /\ IsDict(request.body.j)
    /\ RouteOf(request.body) = "subscription"
    /\ payload' = request.body.j
    /\ calls' = Append(calls, "_handle_subscription_confirmation")
    /\ response' = HandleSubscriptionConfirmation(request.body.j)
    /\ pc' = "done"
    /\ UNCHANGED <<request, result, handled, escaped>>

\* ses.py 76-78
PostUnsubscribeConfirmation ==
    /\ pc = "post"
    /\ request.body.t = "jsonstr"
    /\ IsDict(request.body.j)
    /\ RouteOf(request.body) = "unsubscribe"
    /\ payload' = request.body.j
    /\ response' = JsonResponse([status |-> "ok"], 200)
    /\ pc' = "done"
    /\ UNCHANGED <<request, calls, result, handled, escaped>>

\* ses.py 81-82
PostNotification ==
    /\ pc = "post"
    /\ request.body.t = "jsonstr"
    /\ IsDict(request.body.j)
    /\ RouteOf(request.body) = "notification"
    /\ payload' = request.body.j
    /\ calls' = Append(calls, "_handle_notification")
    /\ pc' = "_handle_notification"
    /\ UNCHANGED <<request, result, handled, response, escaped>>

\* ses.py 84-85
PostUnknownType ==
    /\ pc = "post"
    /\ request.body.t = "jsonstr"
    /\ IsDict(request.body.j)
    /\ RouteOf(request.body) = "unknown"
    /\ payload' = request.body.j
    /\ response' = JsonResponse([error |-> "Unknown message type"], 400)
    /\ pc' = "done"
    /\ UNCHANGED <<request, calls, result, handled, escaped>>

\* ses.py 109-113: _handle_notification calls parse_events; an exception is
\* answered with 400
HandleNotificationParse ==
    /\ pc = "_handle_notification"
    /\ calls' = Append(calls, "parse_events")
    /\ LET res == ParseEvents(payload)
       IN  /\ result' = res
           /\ pc' = AfterParse(res)
           /\ response' = IF AfterParse(res) = "done"
                          THEN JsonResponse([error |-> "Failed to parse events"], 400)
                          ELSE response
    /\ UNCHANGED <<request, payload, handled, escaped>>

\* BaseWebhookHandler.handle_events: the collaborator that receives the events
\* together with the envelope; it is taken to return
HandleEvents(received, events, p) == Append(received, [events |-> events, payload |-> p])

\* ses.py 115-117: handle_events(events, payload), then the count
HandleNotificationEvents ==
    /\ pc = "handle_events"
    /\ calls' = Append(calls, "handle_events")
    /\ handled' = HandleEvents(handled, result.events, payload)
    /\ response' = NotificationResponse(result.events)
    /\ pc' = "done"
    /\ UNCHANGED <<request, payload, result, escaped>>

\* ses.py 119-128: parse_events called on its own, with a request or with a
\* decoded payload
ParseEventsCall ==
    /\ pc = "idle"
    /\ \E arg \in {HttpRequest(b) : b \in Bodies} \cup ControlPayloads :
        /\ request' = arg
        /\ IF arg.t = "HttpRequest"
           THEN IF arg.body.t # "jsonstr"
                THEN payload' = None /\ result' = Raise("JSONDecodeError")
                ELSE /\ payload' = arg.body.j
                     /\ result' = IF IsDict(arg.body.j) THEN ParseEvents(arg.body.j)
                                  ELSE Raise("AttributeError")
           ELSE payload' = arg /\ result' = ParseEvents(arg)
    /\ calls' = <<"parse_events">>
    /\ escaped' = IF result'.ok THEN "none" ELSE result'.exc
    /\ pc' = "returned"
    /\ UNCHANGED <<handled, response>>

\* the call is over; the handler keeps nothing between calls
Finish ==
    /\ pc \in {"done", "returned"}
    /\ pc' = "idle"
    /\ request' = NoRequest
    /\ payload' = None
    /\ calls' = <<>>
    /\ result' = NoResult
    /\ handled' = <<>>
    /\ response' = NoResponse
    /\ escaped' = "none"

Next ==
    \/ Receive
    \/ PostInvalidJSON
    \/ PostNotADict
    \/ PostSubscriptionConfirmation
    \/ PostUnsubscribeConfirmation
    \/ PostNotification
    \/ PostUnknownType
    \/ HandleNotificationParse
    \/ HandleNotificationEvents
    \/ ParseEventsCall
    \/ Finish

Spec == Init /\ [][Next]_vars

---------------------------------------------------------------------------
(* Reading the input of the call in progress, independently of the handler *)

\* the value of a key of a JSON object; Absent when there is no such key or
\* no object at all
Field(x, key) == IF IsDict(x) /\ key \in DOMAIN x.v THEN x.v[key] ELSE Absent

\* the elements of a JSON list; a value that is no list has none
Elements(x) == IF x.t = "arr" THEN x.v ELSE <<>>

\* parse_events has been called on a decoded envelope (a dict) and is over
Parsed == IsDict(payload) /\ result # NoResult

\* the envelope's Message decoded, when it is the text of a JSON document
InnerMessage ==
    LET m == Field(payload, "Message") IN IF m.t = "jsonstr" THEN m.j ELSE Absent

NotificationType == Field(InnerMessage, "notificationType")
MailData == Field(InnerMessage, "mail")
MailDestination == Field(MailData, "destination")
MailTimestamp == Field(MailData, "timestamp")
DeliveryRecipients == Field(Field(InnerMessage, "delivery"), "recipients")
BounceType == Field(Field(InnerMessage, "bounce"), "bounceType")

\* the bounced or complained entries of the notification
AffectedEntries ==
    IF NotificationType = S("Bounce")
    THEN Elements(Field(Field(InnerMessage, "bounce"), "bouncedRecipients"))
    ELSE Elements(Field(Field(InnerMessage, "complaint"), "complainedRecipients"))

\* the entry has an emailAddress that is a non-empty str
HasAddress(entry) ==
    LET a == Field(entry, "emailAddress") IN a.t = "str" /\ a.v # <<>>

RECURSIVE AddressesOf(_)
\* the addresses of the entries that have one, in order, duplicates kept
AddressesOf(entries) ==
    IF entries = <<>> THEN <<>>
    ELSE IF HasAddress(Head(entries))
         THEN <<Field(Head(entries), "emailAddress")>> \o AddressesOf(Tail(entries))
         ELSE AddressesOf(Tail(entries))

RecipientsOf(events) == [i \in 1..Len(events) |-> events[i].recipient]

\* post is handling a request whose body is a JSON object
InPost ==
    /\ pc \notin {"idle", "returned"}
    /\ request.t = "HttpRequest"
    /\ request.body.t = "jsonstr"
    /\ IsDict(request.body.j)

PostedType == Field(request.body.j, "Type")

Called(name) == \E i \in 1..Len(calls) : calls[i] = name

---------------------------------------------------------------------------
(* parse_events: the claims *)

\* the recipient list a Delivery notification reports: delivery.recipients
\* when the key is there, mail.destination otherwise
EffectiveRecipients ==
    IF DeliveryRecipients # Absent THEN DeliveryRecipients ELSE MailDestination

\* C1: for every Delivery notification parse_events emits exactly one event
\* per element of the effective recipient list, in that list's order, and
\* every event's to_addresses is the full mail.destination list.
C1_DeliveryOneEventPerRecipient ==
    (Parsed /\ NotificationType = S("Delivery")) =>
        /\ RecipientsOf(result.events) = Elements(EffectiveRecipients)
        /\ \A i \in 1..Len(result.events) :
               Elements(result.events[i].to_addresses) = Elements(MailDestination)

\* the pair the classification fixes for a notification type and bounce type
ClassifiedPair(nt, bt) ==
    IF nt = S("Delivery") THEN <<"DELIVERED", "Delivery">>
    ELSE IF nt = S("Complaint") THEN <<"SPAM_COMPLAINT", "Complaint">>
    ELSE IF bt = S("Transient") THEN <<"SOFT_BOUNCED", "Bounce:Transient">>
    ELSE IF bt = Absent THEN <<"HARD_BOUNCED", "Bounce:Permanent">>
    ELSE <<"HARD_BOUNCED", "Bounce:" \o Join(bt.v)>>

\* C2: the (delivery_status, raw_event) pair of every emitted event is fixed
\* by notificationType and bounceType alone: Delivery gives (DELIVERED,
\* "Delivery"), a Transient bounce (SOFT_BOUNCED, "Bounce:Transient"), a
\* bounce without bounceType (HARD_BOUNCED, "Bounce:Permanent"), a bounce of
\* any other type s (HARD_BOUNCED, "Bounce:" and s), Complaint
\* (SPAM_COMPLAINT, "Complaint").
C2_StatusFromClassification ==
    Parsed =>
        \A i \in 1..Len(result.events) :
            /\ NotificationType \in {S("Delivery"), S("Bounce"), S("Complaint")}
            /\ <<result.events[i].delivery_status, result.events[i].raw_event>>
                   = ClassifiedPair(NotificationType, BounceType)

\* C2 witness: a bounce of an unexpected type that yields two events, both
\* hard bounces tagged with the type verbatim
C2_Witness ==
    /\ Parsed
    /\ NotificationType = S("Bounce")
    /\ BounceType = S("Undetermined")
    /\ Len(result.events) = 2
    /\ result.events[1].raw_event = "Bounce:Undetermined"
    /\ result.events[2].delivery_status = "HARD_BOUNCED"

\* C3: for every Bounce or Complaint notification the recipients of the
\* emitted events are exactly the emailAddress values of the entries that
\* have a non-empty one, in input order and with duplicates kept; an entry
\* without one yields no event and leaves the events of its siblings alone.
C3_AddressedEntriesOnly ==
    (Parsed /\ NotificationType \in {S("Bounce"), S("Complaint")}) =>
        RecipientsOf(result.events) = AddressesOf(AffectedEntries)

\* the cases in which parse_events may return events
MayYieldEvents ==
    /\ InnerMessage # Absent
    /\ NotificationType \in {S("Delivery"), S("Bounce"), S("Complaint")}

\* C4: parse_events returns events only for a Message that is the text of a
\* JSON document whose notificationType is Delivery, Bounce or Complaint;
\* in every other case it returns no event and raises nothing.
C4_EventsOnlyForMappedTypes ==
    Parsed =>
        /\ result.events # <<>> => MayYieldEvents
        /\ ~MayYieldEvents => (result.ok /\ result.events = <<>>)

\* C5: whatever the shape of the decoded inner Message, parse_events on a
\* decoded envelope returns an event sequence and raises nothing.
C5_NeverRaises == Parsed => result.ok

\* the timestamps datetime.fromisoformat is specified to read
WellFormedTimestamps ==
    {Str(<<"2024-01-02T03:04:05", "Z">>), Str(<<"2024-01-02T03:04:05", "+00:00">>)}

\* the envelope whose mail has no timestamp, all else equal
WithoutTimestamp(p) ==
    LET mail == [k \in DOMAIN MailData.v \ {"timestamp"} |-> MailData.v[k]]
        msg == [InnerMessage.v EXCEPT !["mail"] = Obj(mail)]
    IN  Obj([p.v EXCEPT !["Message"] = JsonStr(Obj(msg))])

\* C6: a malformed mail.timestamp (unparsable text, or no str at all) gives
\* the events of the same notification without timestamp, each with a null
\* timestamp, and no exception; a well-formed timestamp is carried
\* identically by every event of the notification.
C6_MalformedTimestampIsNull ==
    (Parsed /\ MailTimestamp # Absent) =>
        IF MailTimestamp \in WellFormedTimestamps
        THEN \A i \in 1..Len(result.events) :
                 /\ result.events[i].timestamp # None
                 /\ result.events[i].timestamp = result.events[1].timestamp
        ELSE LET base == ParseEvents(WithoutTimestamp(payload))
             IN  /\ result.ok = base.ok
                 /\ result.events = base.events
                 /\ \A i \in 1..Len(result.events) : result.events[i].timestamp = None

---------------------------------------------------------------------------
(* parse_events: what holds of the calls that return, and when it raises *)

\* whenever parse_events returns, the events of a Delivery are those of C1
\* and the events of a Bounce or Complaint are those of C3
EventsWhenReturned ==
    result.ok => (C1_DeliveryOneEventPerRecipient /\ C3_AddressedEntriesOnly)

\* a value that is there and is no JSON object
NotAnObject(x) == x # Absent /\ ~IsDict(x)

\* a list that is there and cannot be iterated, or has an element without get
BadEntryList(x) ==
    x # Absent /\ (x.t # "arr" \/ \E i \in 1..Len(Elements(x)) : ~IsDict(x.v[i]))

\* parse_events raises only on these shapes: a Message that is no str, an
\* inner message, mail, commonHeaders, delivery, bounce, complaint or entry
\* that is no object, a truthy timestamp that is no str, a list that is null
RaisesOnlyOnMalformedShape ==
    (Parsed /\ ~result.ok) =>
        \/ Field(payload, "Message").t = "num"
        \/ ~IsDict(InnerMessage)
        \/ NotAnObject(MailData)
        \/ NotAnObject(Field(MailData, "commonHeaders"))
        \/ MailTimestamp.t = "num"
        \/ /\ NotificationType = S("Delivery")
           /\ \/ NotAnObject(Field(InnerMessage, "delivery"))
              \/ EffectiveRecipients.t \notin {"arr", "absent"}
        \/ /\ NotificationType = S("Bounce")
           /\ \/ NotAnObject(Field(InnerMessage, "bounce"))
              \/ BadEntryList(Field(Field(InnerMessage, "bounce"), "bouncedRecipients"))
        \/ /\ NotificationType = S("Complaint")
           /\ \/ NotAnObject(Field(InnerMessage, "complaint"))
              \/ BadEntryList(Field(Field(InnerMessage, "complaint"), "complainedRecipients"))

---------------------------------------------------------------------------
(* post: the claims *)

\* the value a response carries for a key of the envelope: null when absent
OrNone(x) == IF x = Absent THEN None ELSE x

\* C7: a body of Type SubscriptionConfirmation never has parse_events or
\* handle_events invoked, whatever its Message, and is answered with 200,
\* status "subscription_confirmation_received" and the envelope's
\* SubscribeURL and TopicArn verbatim.
C7_SubscriptionConfirmationAcknowledged ==
    (InPost /\ PostedType = S("SubscriptionConfirmation")) =>
        /\ ~Called("parse_events") /\ ~Called("handle_events")
        /\ result = NoResult /\ handled = <<>> /\ escaped = "none"
        /\ pc \in {"post", "done"}
        /\ pc = "post" => ENABLED PostSubscriptionConfirmation
        /\ pc = "done" =>
               /\ response.status_code = 200
               /\ response.content =
                      [status |-> "subscription_confirmation_received",
                       topic_arn |-> OrNone(Field(request.body.j, "TopicArn")),
                       subscribe_url |-> OrNone(Field(request.body.j, "SubscribeURL"))]

\* C7 witness: a confirmation whose Message is no JSON, answered with its
\* topic and URL
C7_Witness ==
    /\ InPost /\ PostedType = S("SubscriptionConfirmation") /\ pc = "done"
    /\ Field(request.body.j, "Message") = S("{not json")
    /\ response.status_code = 200
    /\ response.content.topic_arn = S("arn:aws:sns:us-east-1:123456789:ses-notifications")
    /\ response.content.subscribe_url =
           S("https://sns.us-east-1.amazonaws.com/?Action=ConfirmSubscription")

\* the Message of the posted envelope is missing, empty or no JSON text
PostedMessageUndecodable ==
    LET m == Field(request.body.j, "Message")
    IN  m = Absent \/ m.t = "str"

\* C8: for a body of Type Notification on which parse_events returns, post
\* invokes handle_events exactly once, after parsing, with the events
\* parse_events returned and the whole envelope, and then answers success
\* with processed = the number of those events; a missing, empty or
\* undecodable Message gives success with processed = 0.
C8_NotificationHandledOnce ==
    (InPost /\ PostedType = S("Notification")) =>
        /\ pc \in {"post", "_handle_notification"} =>
               ~Called("parse_events") /\ ~Called("handle_events") /\ handled = <<>>
        /\ pc = "post" => ENABLED PostNotification
        /\ pc = "_handle_notification" => ENABLED HandleNotificationParse
        /\ (result # NoResult /\ result.ok) =>
               /\ pc \in {"handle_events", "done"}
               /\ pc = "handle_events" =>
                      /\ handled = <<>> /\ ~Called("handle_events")
                      /\ response = NoResponse
                      /\ ENABLED HandleNotificationEvents
               /\ pc = "done" =>
                      /\ handled = <<[events |-> result.events, payload |-> request.body.j]>>
                      /\ calls = <<"post", "verify_signature", "_handle_notification",
                                   "parse_events", "handle_events">>
                      /\ response = JsonResponse([status |-> "ok",
                                                  processed |-> Len(result.events)], 200)
                      /\ escaped = "none"
        /\ (PostedMessageUndecodable /\ pc = "done") =>
               response = JsonResponse([status |-> "ok", processed |-> 0], 200)

\* C8 witness: a notification of two events, handed over once and counted
C8_Witness ==
    /\ InPost /\ PostedType = S("Notification") /\ pc = "done"
    /\ Len(handled) = 1
    /\ Len(handled[1].events) = 2
    /\ handled[1].payload = request.body.j
    /\ response.content.processed = 2

\* C9: a decoded body whose Type is absent or none of Notification,
\* SubscriptionConfirmation, UnsubscribeConfirmation produces no events,
\* never has parse_events or handle_events invoked, gets no confirmation
\* payload and is answered with status 400; handle_events is invoked only
\* when Type is exactly Notification.
C9_UnknownTypeRejected ==
    /\ (InPost /\ PostedType \notin {S("Notification"), S("SubscriptionConfirmation"),
                                     S("UnsubscribeConfirmation")}) =>
           /\ calls = <<"post", "verify_signature">>
           /\ result = NoResult /\ handled = <<>> /\ escaped = "none"
           /\ pc \in {"post", "done"}
           /\ pc = "post" => ENABLED PostUnknownType
           /\ pc = "done" => response = JsonResponse([error |-> "Unknown message type"], 400)
    /\ (Called("handle_events") \/ handled # <<>>) =>
           (InPost /\ PostedType = S("Notification"))

\* C9 witness: an envelope without Type that carries a well-formed Delivery
\* message, refused
C9_Witness ==
    /\ InPost /\ PostedType = Absent /\ pc = "done"
    /\ Field(request.body.j, "Message").t = "jsonstr"
    /\ Field(Field(request.body.j, "Message").j, "notificationType") = S("Delivery")
    /\ response.status_code = 400
    /\ handled = <<>>

\* C10: when parse_events raises on the payload of a Notification,
\* _handle_notification answers with status 400 and does not invoke
\* handle_events; no events reach the collaborator and the exception does
\* not leave post.
C10_ParseErrorAnswered400 ==
    (InPost /\ result # NoResult /\ ~result.ok) =>
        /\ pc = "done"
        /\ response = JsonResponse([error |-> "Failed to parse events"], 400)
        /\ handled = <<>> /\ ~Called("handle_events")
        /\ escaped = "none"

\* C10 witness: parse_events has raised inside post and the answer is 400
C10_Witness ==
    /\ InPost /\ PostedType = S("Notification") /\ pc = "done"
    /\ Called("parse_events")
    /\ ~result.ok /\ result.exc = "AttributeError"
    /\ response.status_code = 400
    /\ handled = <<>>

====
